---------------------------- MODULE Spec2Model ----------------------------
(***************************************************************************)
(* A model of fitbert's option-ranking engine (src/fitbert/fitb.py):       *)
(* FitBertT.rank and FitBertT.fitb with the helpers they call              *)
(* (simplify_options, is_multi, rank_single, rank_multi).                  *)
(*                                                                         *)
(* A Python str is a sequence of one-character strings.  The masked        *)
(* language model is an oracle: a score per candidate, chosen              *)
(* nondeterministically but deterministic in its input (equal inputs get   *)
(* equal scores).  One behaviour is one call fitb(sent, options); its      *)
(* prefix up to pc = "rank_returned" is the call rank(sent, options) that  *)
(* fitb makes on its first line.                                           *)
(***************************************************************************)
EXTENDS Integers, Sequences, FiniteSets, TLC

(* ------------------------------ bounds -------------------------------- *)

\* longest option list the caller passes
MaxOpts == 3

\* the oracle's probabilities are abstracted to the ordered set 0..MaxScore
MaxScore == 1

Scores == 0 .. MaxScore

(* ------------------------- Python str helpers ------------------------- *)

Whitespace == {" "}

\* FitBertT.__init__: mask_token (abbreviated from "***mask***")
mask_token == <<"*", "m", "*">>

RECURSIVE split_acc(_, _, _)
split_acc(s, cur, acc) ==
    IF s = <<>>
    THEN IF cur = <<>> THEN acc ELSE Append(acc, cur)
    ELSE IF Head(s) \in Whitespace
         THEN split_acc(Tail(s), <<>>, IF cur = <<>> THEN acc ELSE Append(acc, cur))
         ELSE split_acc(Tail(s), Append(cur, Head(s)), acc)

\* str.split() without argument: the whitespace-delimited tokens
split(s) == split_acc(s, <<>>, <<>>)

RECURSIVE make_string(_, _)
\* seq(xs).make_string(sep): sep.join(xs)
make_string(xs, sep) ==
    IF xs = <<>> THEN <<>>
    ELSE IF Len(xs) = 1 THEN xs[1]
    ELSE xs[1] \o sep \o make_string(Tail(xs), sep)

RECURSIVE lstrip(_)
lstrip(s) ==
    IF s # <<>> /\ Head(s) \in Whitespace THEN lstrip(Tail(s)) ELSE s

RECURSIVE rstrip(_)
rstrip(s) ==
    IF s # <<>> /\ s[Len(s)] \in Whitespace
    THEN rstrip(SubSeq(s, 1, Len(s) - 1))
    ELSE s

\* str.strip()
strip(s) == rstrip(lstrip(s))

StartsWith(s, p) == Len(s) >= Len(p) /\ SubSeq(s, 1, Len(p)) = p

RECURSIVE replace(_, _, _)
\* str.replace(old, new): every non-overlapping occurrence, left to right
replace(s, old, new) ==
    IF s = <<>> THEN <<>>
    ELSE IF StartsWith(s, old)
         THEN new \o replace(SubSeq(s, Len(old) + 1, Len(s)), old, new)
         ELSE <<Head(s)>> \o replace(Tail(s), old, new)

RECURSIVE split_on_acc(_, _, _, _)
split_on_acc(s, sep, cur, acc) ==
    IF s = <<>> THEN Append(acc, cur)
    ELSE IF StartsWith(s, sep)
         THEN split_on_acc(SubSeq(s, Len(sep) + 1, Len(s)), sep, <<>>, Append(acc, cur))
         ELSE split_on_acc(Tail(s), sep, Append(cur, Head(s)), acc)

\* str.split(sep): the parts around every occurrence of sep
split_on(s, sep) == split_on_acc(s, sep, <<>>, <<>>)

(* ------------------------ PyFunctional helpers ------------------------ *)

\* the option list passed on without deduplication
distinct_none(xs) == xs

RECURSIVE distinct_acc(_, _)
distinct_acc(xs, acc) ==
    IF xs = <<>> THEN acc
    ELSE distinct_acc(Tail(xs),
                      IF \E i \in 1 .. Len(acc) : acc[i] = Head(xs)
                      THEN acc
                      ELSE Append(acc, Head(xs)))

\* seq(xs).distinct(): first occurrences, in order (PyFunctional yields an
\* element the first time it is seen)
distinct(xs) == distinct_acc(xs, <<>>)

reverse(xs) == [i \in 1 .. Len(xs) |-> xs[Len(xs) + 1 - i]]

MinLen(lists) ==
    IF lists = <<>> THEN 0
    ELSE CHOOSE n \in {Len(lists[i]) : i \in 1 .. Len(lists)} :
            \A i \in 1 .. Len(lists) : n <= Len(lists[i])

\* list(zip(*lists)): the columns, as many as the shortest list has entries
zip_star(lists) ==
    [j \in 1 .. MinLen(lists) |-> [i \in 1 .. Len(lists) |-> lists[i][j]]]

RECURSIVE take_while_same(_)
\* .take_while(lambda x: seq(x).distinct().len() == 1).map(lambda x: x[0])
take_while_same(cols) ==
    IF cols = <<>> THEN <<>>
    ELSE IF Cardinality({cols[1][i] : i \in 1 .. Len(cols[1])}) = 1
         THEN <<cols[1][1]>> \o take_while_same(Tail(cols))
         ELSE <<>>

\* x[a:b] for 0 <= a and 0 <= b <= len(x)
slice(x, a, b) == SubSeq(x, a + 1, b)

(* ---------------------------- FitBertT -------------------------------- *)

\* is_multi counting only options of two or more tokens
is_multi_more_than_one(options) ==
    {i \in 1 .. Len(options) : Len(split(options[i])) > 1} # {}

\* is_multi: some option does not split into exactly one token
is_multi(options) ==
    {i \in 1 .. Len(options) : Len(split(options[i])) # 1} # {}

\* the suffix scan run over whole options, the common prefix not removed
options_split_reversed_whole(options_split, start) ==
    [i \in 1 .. Len(options_split) |-> reverse(options_split[i])]

\* simplify_options: each option's tokens after the common prefix, reversed
options_split_reversed(options_split, start) ==
    [i \in 1 .. Len(options_split) |->
        reverse(slice(options_split[i], Len(start), Len(options_split[i])))]

simplify_options(sent, options) ==
    LET options_split == [i \in 1 .. Len(options) |-> split(options[i])]
        trans_start   == zip_star(options_split)
        start         == take_while_same(trans_start)
        trans_end     == zip_star(options_split_reversed(options_split, start))
        end           == take_while_same(trans_end)
        start_words   == make_string(start, <<" ">>)
        end_words     == make_string(reverse(end), <<" ">>)
        simplified    ==
            [i \in 1 .. Len(options_split) |->
                strip(make_string(
                    slice(options_split[i], Len(start),
                          Len(options_split[i]) - Len(end)),
                    <<" ">>))]
        sub == strip(make_string(<<start_words, mask_token, end_words>>, <<" ">>))
    IN  [options     |-> simplified,
         sent        |-> replace(sent, mask_token, sub),
         start_words |-> start_words,
         end_words   |-> end_words]

\* the phrase rebuilt without the final strip()
reattach_unstripped(start_words, x, end_words) ==
    make_string(<<start_words, x, end_words>>, <<" ">>)

\* rank: the phrase rebuilt around one ranked simplified option
reattach(start_words, x, end_words) ==
    strip(make_string(<<start_words, x, end_words>>, <<" ">>))

\* rank: the test that returns the deduplicated options unranked
short_circuit(options) == Len(options) = 1

\* one step of sorted(key = score, reverse = True): p goes behind every
\* element whose score is at least its own
insert_desc(sorted, p) ==
    LET k == Cardinality({i \in 1 .. Len(sorted) : sorted[i][1] >= p[1]})
    IN  SubSeq(sorted, 1, k) \o <<p>> \o SubSeq(sorted, k + 1, Len(sorted))

RECURSIVE sorted_acc(_, _)
sorted_acc(ps, acc) ==
    IF ps = <<>> THEN acc ELSE sorted_acc(Tail(ps), insert_desc(acc, Head(ps)))

\* an ascending sort read backwards: equal scores come out in reverse order
insert_asc(sorted, p) ==
    LET k == Cardinality({i \in 1 .. Len(sorted) : sorted[i][1] <= p[1]})
    IN  SubSeq(sorted, 1, k) \o <<p>> \o SubSeq(sorted, k + 1, Len(sorted))

RECURSIVE sorted_asc_acc(_, _)
sorted_asc_acc(ps, acc) ==
    IF ps = <<>> THEN acc ELSE sorted_asc_acc(Tail(ps), insert_asc(acc, Head(ps)))

sorted_asc_reversed(ps) == reverse(sorted_asc_acc(ps, <<>>))

\* .sorted(key=lambda x: x[0], reverse=True) on (score, option) pairs
sorted_desc(ps) == sorted_acc(ps, <<>>)

\* .zip(options).sorted(...).map(lambda x: x[1]).list()
ranked_options(probs, words) ==
    LET zipped == [i \in 1 .. Len(words) |-> <<probs[i], words[i]>>]
        srt    == sorted_desc(zipped)
    IN  [i \in 1 .. Len(srt) |-> srt[i][2]]

\* rank_multi: the candidate sentence scored for option x
candidate(masked_sent, x) == replace(masked_sent, mask_token, x)

(* ------------------------------ inputs -------------------------------- *)

\* caller's phrases over the words a, b and c; the last one spells "a" with
\* a leading blank
Phrases ==
    { <<"a">>, <<"b">>, <<"c">>,
      <<"a", " ", "a">>, <<"a", " ", "b">>,
      <<"a", " ", "b", " ", "a">>,
      <<" ", "a">> }

\* sentences with one, no and two placeholders
Sentences ==
    { <<"I", " ">> \o mask_token \o <<".">>,
      <<"I", " ", ".">>,
      <<"I", " ">> \o mask_token \o <<" ">> \o mask_token \o <<".">> }

OptionLists == UNION {[1 .. n -> Phrases] : n \in 0 .. MaxOpts}

(* ------------------------------- state -------------------------------- *)

VARIABLES
    sent,          \* argument of rank / fitb
    options,       \* argument of rank / fitb
    pc,            \* position of the call
    dedup,         \* rank: options after seq(options).distinct()
    simp,          \* rank: what simplify_options returned
    multi,         \* rank: what is_multi returned
    probs,         \* the oracle's score of each simplified option
    ranker_out,    \* rank: what rank_single / rank_multi returned
    ranked,        \* rank: its return value
    called,        \* methods rank has invoked
    oracle_calls,  \* forward passes of self.bert
    error,         \* exception that ended the call
    result         \* fitb: its return value

vars == <<sent, options, pc, dedup, simp, multi, probs, ranker_out, ranked,
          called, oracle_calls, error, result>>

NoSimp == [options |-> <<>>, sent |-> <<>>, start_words |-> <<>>, end_words |-> <<>>]

Init ==
    /\ sent \in Sentences
    /\ options \in OptionLists
    /\ pc = "rank"
    /\ dedup = <<>>
    /\ simp = NoSimp
    /\ multi = FALSE
    /\ probs = <<>>
    /\ ranker_out = <<>>
    /\ ranked = <<>>
    /\ called = {}
    /\ oracle_calls = 0
    /\ error = "none"
    /\ result = <<>>

\* rank, lines 196-199: deduplicate; a single option is returned as it is
Rank_Distinct ==
    /\ pc = "rank"
    /\ dedup' = distinct(options)
    /\ IF short_circuit(dedup')
       THEN /\ ranked' = dedup'
            /\ pc' = "rank_returned"
       ELSE /\ pc' = "simplify"
            /\ UNCHANGED ranked
    /\ UNCHANGED <<sent, options, simp, multi, probs, ranker_out, called,
                   oracle_calls, error, result>>

\* rank, line 201
Rank_Simplify ==
    /\ pc = "simplify"
    /\ simp' = simplify_options(sent, dedup)
    /\ called' = called \cup {"simplify_options"}
    /\ pc' = "select"
    /\ UNCHANGED <<sent, options, dedup, multi, probs, ranker_out, ranked,
                   oracle_calls, error, result>>

\* the pathway chosen from the caller's phrases instead of the simplified ones
Rank_Select_on_input ==
    /\ pc = "select"
    /\ multi' = is_multi(dedup)
    /\ called' = called \cup {"is_multi"}
    /\ pc' = IF multi' THEN "rank_multi" ELSE "rank_single"
    /\ UNCHANGED <<sent, options, dedup, simp, probs, ranker_out, ranked,
                   oracle_calls, error, result>>

\* rank, lines 203-206: the pathway
Rank_Select ==
    /\ pc = "select"
    /\ multi' = is_multi(simp.options)
    /\ called' = called \cup {"is_multi"}
    /\ pc' = IF multi' THEN "rank_multi" ELSE "rank_single"
    /\ UNCHANGED <<sent, options, dedup, simp, probs, ranker_out, ranked,
                   oracle_calls, error, result>>

\* rank_single, line 108: the unpacking fails unless the sentence has
\* exactly one placeholder
RankSingle_Raise ==
    /\ pc = "rank_single"
    /\ Len(split_on(simp.sent, mask_token)) # 2
    /\ called' = called \cup {"rank_single"}
    /\ error' = "ValueError"
    /\ pc' = "raised"
    /\ UNCHANGED <<sent, options, dedup, simp, multi, probs, ranker_out,
                   ranked, oracle_calls, result>>

\* rank_single, lines 108-139: one forward pass; each word is scored by the
\* probability of its first subword id at the masked position
RankSingle ==
    /\ pc = "rank_single"
    /\ Len(split_on(simp.sent, mask_token)) = 2
    /\ called' = called \cup {"rank_single"}
    /\ oracle_calls' = oracle_calls + 1
    /\ \E p \in [1 .. Len(simp.options) -> Scores] :
          /\ \A i, j \in 1 .. Len(simp.options) :
                simp.options[i] = simp.options[j] => p[i] = p[j]
          /\ probs' = p
          /\ ranker_out' = ranked_options(p, simp.options)
    /\ pc' = "reattach"
    /\ UNCHANGED <<sent, options, dedup, simp, multi, ranked, error, result>>

\* rank_multi, lines 141-151 with get_sentence_probability: one forward
\* pass (a batch of re-masked copies) per candidate sentence
RankMulti ==
    /\ pc = "rank_multi"
    /\ called' = called \cup {"rank_multi"}
    /\ oracle_calls' = oracle_calls + Len(simp.options)
    /\ \E p \in [1 .. Len(simp.options) -> Scores] :
          /\ \A i, j \in 1 .. Len(simp.options) :
                candidate(simp.sent, simp.options[i])
                    = candidate(simp.sent, simp.options[j]) => p[i] = p[j]
          /\ probs' = p
          /\ ranker_out' = ranked_options(p, simp.options)
    /\ pc' = "reattach"
    /\ UNCHANGED <<sent, options, dedup, simp, multi, ranked, error, result>>

\* rank, lines 208-215
Rank_Reattach ==
    /\ pc = "reattach"
    /\ ranked' = [i \in 1 .. Len(ranker_out) |->
                    reattach(simp.start_words, ranker_out[i], simp.end_words)]
    /\ pc' = "rank_returned"
    /\ UNCHANGED <<sent, options, dedup, simp, multi, probs, ranker_out,
                   called, oracle_calls, error, result>>

\* fitb, line 219: ranked[0] of an empty list
Fitb_Raise ==
    /\ pc = "rank_returned"
    /\ ranked = <<>>
    /\ error' = "IndexError"
    /\ pc' = "raised"
    /\ UNCHANGED <<sent, options, dedup, simp, multi, probs, ranker_out,
                   ranked, called, oracle_calls, result>>

\* fitb, lines 219-220
Fitb ==
    /\ pc = "rank_returned"
    /\ ranked # <<>>
    /\ result' = replace(sent, mask_token, ranked[1])
    /\ pc' = "fitb_returned"
    /\ UNCHANGED <<sent, options, dedup, simp, multi, probs, ranker_out,
                   ranked, called, oracle_calls, error>>

Next ==
    \/ Rank_Distinct
    \/ Rank_Simplify
    \/ Rank_Select
    \/ RankSingle_Raise
    \/ RankSingle
    \/ RankMulti
    \/ Rank_Reattach
    \/ Fitb_Raise
    \/ Fitb

Spec == Init /\ [][Next]_vars

TypeOK ==
    /\ pc \in {"rank", "simplify", "select", "rank_single", "rank_multi",
               "reattach", "rank_returned", "fitb_returned", "raised"}
    /\ error \in {"none", "ValueError", "IndexError"}
    /\ multi \in BOOLEAN
    /\ oracle_calls \in 0 .. MaxOpts + 1

(* ------------------------- vocabulary of the claims ------------------- *)

Range(xs) == {xs[i] : i \in 1 .. Len(xs)}

\* occurrences of the placeholder in a sentence
Placeholders(s) == Len(split_on(s, mask_token)) - 1

\* s consists of exactly one whitespace-delimited token
OneToken(s) ==
    /\ strip(s) # <<>>
    /\ \A k \in 1 .. Len(strip(s)) : strip(s)[k] \notin Whitespace

RankReturned == pc \in {"rank_returned", "fitb_returned"}

RankerRan == called \cap {"rank_single", "rank_multi"} # {}

\* place in the stable descending order of the option with index i
Place(i) ==
    1 + Cardinality({j \in 1 .. Len(probs) :
                        \/ probs[j] > probs[i]
                        \/ probs[j] = probs[i] /\ j < i})

\* index of the first occurrence of option o in the caller's list
FirstOccurrence(o) ==
    CHOOSE k \in 1 .. Len(options) :
        /\ options[k] = o
        /\ \A l \in 1 .. k - 1 : options[l] # o

IsPrefix(p, xs) == Len(p) <= Len(xs) /\ SubSeq(xs, 1, Len(p)) = p

IsSuffix(p, xs) ==
    Len(p) <= Len(xs) /\ SubSeq(xs, Len(xs) - Len(p) + 1, Len(xs)) = p

(* ------------------------------- claims ------------------------------- *)

\* C1: for a sentence with one placeholder, rank returns a permutation of
\* the deduplicated options: every distinct input option occurs exactly
\* once in the output, character for character, and nothing else occurs.
C1_RankIsPermutation ==
    (pc = "rank_returned" /\ Placeholders(sent) = 1) =>
        /\ Len(ranked) = Cardinality(Range(options))
        /\ Range(ranked) = Range(options)

C3_SingleOptionShortCircuit ==
    Cardinality(Range(options)) = 1 =>
        /\ oracle_calls = 0
        /\ called = {}
        /\ error = "none"
        /\ pc \in {"rank", "rank_returned", "fitb_returned"}
        /\ RankReturned => ranked = <<options[1]>>

\* the same string given three times, in a sentence without placeholder
C3_Witness ==
    /\ pc = "rank_returned"
    /\ Len(options) = 3
    /\ Cardinality(Range(options)) = 1
    /\ Placeholders(sent) = 0
    /\ ranked = <<options[1]>>

\* C4: for a sentence with one placeholder and a non-empty option list,
\* fitb returns the sentence with the placeholder replaced by the first
\* element of rank's result, and that is the sentence with the placeholder
\* replaced by one of the caller's options.
C4_FitbFillsInputOption ==
    (pc = "fitb_returned" /\ Placeholders(sent) = 1 /\ options # <<>>) =>
        /\ result = replace(sent, mask_token, ranked[1])
        /\ \E o \in Range(options) : result = replace(sent, mask_token, o)

\* C5: with an empty option list rank and fitb fail before any forward
\* pass of the model; rank never returns normally.
C5_EmptyOptionSet ==
    options = <<>> =>
        /\ oracle_calls = 0
        /\ ~RankReturned

\* C6: a sentence without placeholder, or with more than one, makes the
\* call fail on every path; rank does not return normally.
C6_PlaceholderChecked ==
    Placeholders(sent) # 1 => ~RankReturned

\* C7: is_multi returns TRUE iff some option has more than one token; it
\* is FALSE when every option has one token or none.
C7_IsMultiMoreThanOne ==
    pc \in {"rank_single", "rank_multi"} =>
        (multi <=> \E i \in 1 .. Len(simp.options) :
                      Len(split(simp.options[i])) > 1)

\* C7 as amended: is_multi returns TRUE iff some option is not exactly one
\* token, an option without any token (the empty string) included; it is
\* FALSE for the empty list.
C7_IsMultiNotOneToken ==
    pc \in {"rank_single", "rank_multi"} =>
        (multi <=> \E i \in 1 .. Len(simp.options) : ~OneToken(simp.options[i]))

\* is_multi answers TRUE although no option has more than one token
C7_Witness ==
    /\ pc = "rank_multi"
    /\ multi
    /\ \A i \in 1 .. Len(simp.options) : Len(split(simp.options[i])) <= 1

\* C8: called with two or more options, simplify_options returns (seen in
\* the state it returns to) the longest common
\* token prefix as start_words, the longest common token suffix of what is
\* left as end_words, simplified options that give back each option's
\* tokens between the two, in input order, and the sentence with its
\* placeholder replaced by start_words, placeholder and end_words joined by
\* single blanks and trimmed.
C8_SimplifyOptions ==
    (pc = "select" /\ Len(dedup) >= 2) =>
        LET n       == Len(dedup)
            toks(i) == split(dedup[i])
            st      == split(simp.start_words)
            en      == split(simp.end_words)
            rest(i) == SubSeq(toks(i), Len(st) + 1, Len(toks(i)))
            sub     == (IF simp.start_words = <<>> THEN <<>>
                        ELSE simp.start_words \o <<" ">>)
                       \o mask_token
                       \o (IF simp.end_words = <<>> THEN <<>>
                           ELSE <<" ">> \o simp.end_words)
            parts   == split_on(sent, mask_token)
        IN  /\ simp.start_words = make_string(st, <<" ">>)
            /\ simp.end_words = make_string(en, <<" ">>)
            /\ \A i \in 1 .. n : IsPrefix(st, toks(i))
            /\ ~ \E t \in UNION {Range(toks(i)) : i \in 1 .. n} :
                    \A i \in 1 .. n : IsPrefix(Append(st, t), toks(i))
            /\ \A i \in 1 .. n : IsSuffix(en, rest(i))
            /\ ~ \E t \in UNION {Range(toks(i)) : i \in 1 .. n} :
                    \A i \in 1 .. n : IsSuffix(<<t>> \o en, rest(i))
            /\ Len(simp.options) = n
            /\ \A i \in 1 .. n :
                    st \o split(simp.options[i]) \o en = toks(i)
            /\ Placeholders(sent) = 1 =>
                    simp.sent = parts[1] \o sub \o parts[2]
            /\ Placeholders(simp.sent) = Placeholders(sent)

\* "a a" and "a b" in "I *m*." (the shape of "to eat" and "to drink" in
\* "I want *m*."): start "a", no end, options "a" and "b", sentence
\* "I a *m*."
C8_Witness ==
    /\ pc = "select"
    /\ sent = <<"I", " ">> \o mask_token \o <<".">>
    /\ dedup = << <<"a", " ", "a">>, <<"a", " ", "b">> >>
    /\ simp.start_words = <<"a">>
    /\ simp.end_words = <<>>
    /\ simp.options = << <<"a">>, <<"b">> >>
    /\ simp.sent = <<"I", " ", "a", " ">> \o mask_token \o <<".">>

\* C9: with two or more distinct options exactly one ranker runs per call,
\* chosen from the simplified options: rank_multi iff some simplified
\* option is not exactly one token (the empty string included), rank_single
\* otherwise, whatever the caller's own phrases look like.
C9_PathwayFromSimplified ==
    LET n      == Len(simp.options)
        single == \A i \in 1 .. n : OneToken(simp.options[i])
    IN  /\ ~ ({"rank_single", "rank_multi"} \subseteq called)
        /\ pc \in {"rank_single", "rank_multi"} =>
                (pc = "rank_multi" <=> ~single)
        /\ pc = "reattach" =>
                /\ RankerRan
                /\ "rank_multi" \in called <=> ~single
        /\ (pc = "raised" /\ error = "ValueError") =>
                "rank_single" \in called /\ single
        /\ (RankReturned /\ Len(dedup) >= 2) => RankerRan

\* the two-word phrases "a a" and "a b" are ranked as "a" and "b" by
\* rank_single
C9_Witness ==
    /\ pc = "rank_returned"
    /\ dedup = << <<"a", " ", "a">>, <<"a", " ", "b">> >>
    /\ simp.options = << <<"a">>, <<"b">> >>
    /\ called = {"simplify_options", "is_multi", "rank_single"}
    /\ oracle_calls = 1

=============================================================================
